------------------------------- MODULE HwLoop -------------------------------
(***************************************************************************)
(* Hardware loops across IF and ID: the decoding states of the controller  *)
(* FSM with its flush, exception, debug and event-load states              *)
(* (cv32e40p_controller.sv), the loop counters (cv32e40p_hwloop_regs.sv),  *)
(* the PC logic of the aligner for 32-bit instructions and the IF/ID       *)
(* register.  Interrupts, halt requests, single steps, stalls and fetch    *)
(* misses may come at any instruction of a program with two loops.         *)
(*                                                                         *)
(* Addresses count instructions.  The trap handler and the debugger are    *)
(* programs of one returning instruction each, at Handler and at Debugger. *)
(***************************************************************************)
EXTENDS Integers

CONSTANTS Start0, End0, Start1, End1,  \* lpstart and lpend of the loops
          Counts,                      \* values written to lpcount
          Modulus,                     \* 2^32: lpcount counts modulo this
          BodyKinds, LastKinds,        \* instructions in a body, and at its end
          Steps                        \* values of dcsr.step

Kinds == {"plain", "csr", "ecall", "elw"}

ASSUME HwLoopAssumption ==
    /\ {Start0, End0, Start1, End1} \subseteq Nat
    /\ Modulus \in Nat \ {0}
    /\ Counts \subseteq 0..Modulus-1
    /\ Start0 >= 1 /\ Start1 >= 1
    /\ End0 >= Start0 + 3 /\ End1 >= Start1 + 3       \* three instructions at least
    /\ \/ Start1 < Start0 /\ End1 >= End0 + 2         \* nested, loop 0 inside
       \/ End1 < Start0 \/ End0 < Start1              \* one after the other
    /\ BodyKinds \subseteq Kinds /\ LastKinds \subseteq Kinds
    /\ Steps \subseteq BOOLEAN

VARIABLES
    ctrl_fsm_cs, jump_done_q, hwlp_end_4_id_q,    \* controller
    debug_mode_q, debug_req_entry_q,
    counter,                                      \* hwlp_counter_q
    pc_if, hwlp_update_pc_q, hwlp_addr_q,         \* aligner
    id,                                           \* IF/ID: valid, pc, kind
    csr                                           \* mepc, dpc, trap state, step

vars == <<ctrl_fsm_cs, jump_done_q, hwlp_end_4_id_q, debug_mode_q,
          debug_req_entry_q, counter, pc_if, hwlp_update_pc_q, hwlp_addr_q, id, csr>>

Loop     == {0, 1}
Start    == [k \in Loop |-> IF k = 0 THEN Start0 ELSE Start1]
End      == [k \in Loop |-> IF k = 0 THEN End0 ELSE End1]
Exit     == IF End0 > End1 THEN End0 ELSE End1
Handler  == Exit + 2
Debugger == Exit + 4
NoPc     == -1

\* The instruction that may be fetched from an address.
KindsAt(a) ==
    CASE a = Handler -> {"mret"}
      [] a = Debugger -> {"dret"}
      [] a = Exit -> {"jump"}
      [] \E k \in Loop : a + 1 = Start[k] -> {"count"}
      [] \E k \in Loop : a + 1 = End[k] -> LastKinds
      [] OTHER -> BodyKinds

\* The inputs of a cycle, without those that make no difference in the state.
Decoding == ctrl_fsm_cs \in {"DECODE", "DECODE_HWLOOP"}
If(b)    == IF b THEN BOOLEAN ELSE {FALSE}
Signals  == [fetch_valid : If(Decoding), id_ready : If(Decoding \/ ctrl_fsm_cs = "ELW_EXE"),
             ex_valid : If(ctrl_fsm_cs = "FLUSH_EX"),
             irq : If(Decoding \/ ctrl_fsm_cs = "IRQ_FLUSH_ELW"),
             debug_req : If(Decoding \/ ctrl_fsm_cs \in {"ELW_EXE", "IRQ_FLUSH_ELW"})]
Inputs   == {in \in Signals : in.fetch_valid => in.id_ready}

-----------------------------------------------------------------------------
(* The comparators of the controller.                                      *)

hwlp_end_eq_pc(k)       == End[k] = id.pc + 1
hwlp_end_eq_pc_plus4(k) == End[k] = id.pc + 2
InRange(k) == Start[k] =< id.pc /\ id.pc + 1 =< End[k]

is_hwlp_body == \E k \in Loop : InRange(k) /\ counter[k] > 1

MutTargetOuter == IF InRange(1) THEN Start1 ELSE Start0

\* hwlp_targ_addr_o unless a loop jump names its loop.
hwlp_targ_addr == IF InRange(1) /\ ~InRange(0) THEN Start1 ELSE Start0

-----------------------------------------------------------------------------
(* What a cycle does to the fetch side, the IF/ID register and the         *)
(* counters: `halt_if' and `halt_id' stop the stages, `set' is the new PC  *)
(* (pc_set_o), `jump' the target of a loop jump (hwlp_jump_o), `dec' the   *)
(* loops to count down.                                                    *)

TakesWord(in, halt_if, set) ==
    in.fetch_valid /\ in.id_ready /\ ~halt_if /\ set = NoPc

Aligner(in, halt_if, set, jump) ==
    LET update == set # NoPc \/ TakesWord(in, halt_if, set)
    IN  /\ pc_if' = IF set # NoPc THEN set
                    ELSE IF ~update THEN pc_if
                    ELSE IF jump # NoPc THEN jump
                    ELSE IF hwlp_update_pc_q THEN hwlp_addr_q
                    ELSE pc_if + 1
        /\ hwlp_update_pc_q' = (~update /\ (hwlp_update_pc_q \/ jump # NoPc))
        /\ hwlp_addr_q' = IF ~update /\ jump # NoPc THEN jump ELSE hwlp_addr_q

IfId(in, halt_if, halt_id, set) ==
    IF TakesWord(in, halt_if, set)
    THEN \E kind \in KindsAt(pc_if) :
            id' = [valid |-> TRUE, pc |-> pc_if, kind |-> kind]
    ELSE id' = [id EXCEPT !.valid = @ /\ ~in.id_ready /\ ~halt_id]

Fetch(in, halt_if, halt_id, set, jump) ==
    /\ Aligner(in, halt_if, set, jump)
    /\ IfId(in, halt_if, halt_id, set)

\* The second loop counts only together with the first.
MutOneEnable(in, halt_id, dec) ==
    counter' = [k \in Loop |->
                  IF k \in dec /\ 0 \in dec /\ id.valid /\ (in.id_ready \/ halt_id)
                  THEN (counter[k] - 1) % Modulus ELSE counter[k]]

\* A counter is only decremented when the instruction leaves ID (hwlp_valid).
CountDown(in, halt_id, dec) ==
    counter' = [k \in Loop |->
                  IF k \in dec /\ id.valid /\ (in.id_ready \/ halt_id)
                  THEN (counter[k] - 1) % Modulus ELSE counter[k]]

\* A jump that was made is remembered for as long as ID stalls.
JumpDone(in, jumped) == jump_done_q' = ((jump_done_q \/ jumped) /\ ~in.id_ready)

\* A cycle in which ID decodes nothing.
Idles(in, set) ==
    /\ Fetch(in, TRUE, TRUE, set, NoPc)
    /\ CountDown(in, TRUE, {})
    /\ JumpDone(in, FALSE) /\ hwlp_end_4_id_q' = FALSE

Stepping == csr.step /\ ~debug_mode_q

-----------------------------------------------------------------------------
(* DECODE and DECODE_HWLOOP.                                               *)

HaltReq(in) == in.debug_req /\ ~debug_mode_q
IrqReq(in)  == in.irq /\ ~debug_mode_q /\ ~csr.trap /\ ~csr.step
Decodes(in) == Decoding /\ id.valid /\ ~HaltReq(in) /\ ~IrqReq(in)

NoInstruction(in) ==
    /\ Decoding /\ ~id.valid
    /\ Fetch(in, FALSE, FALSE, NoPc, NoPc)
    /\ CountDown(in, FALSE, {})
    /\ JumpDone(in, FALSE) /\ hwlp_end_4_id_q' = FALSE
    /\ UNCHANGED <<ctrl_fsm_cs, debug_mode_q, debug_req_entry_q, csr>>

HaltRequest(in) ==
    /\ Decoding /\ id.valid /\ HaltReq(in)
    /\ Idles(in, NoPc)
    /\ ctrl_fsm_cs' = "DBG_FLUSH"
    /\ debug_req_entry_q' = TRUE
    /\ UNCHANGED <<debug_mode_q, csr>>

MutIrqKeepsState(in) ==
    /\ Decoding /\ id.valid /\ ~HaltReq(in) /\ IrqReq(in)
    /\ Idles(in, Handler)
    /\ csr' = [csr EXCEPT !.mepc = id.pc, !.trap = TRUE]
    /\ UNCHANGED <<ctrl_fsm_cs, debug_mode_q, debug_req_entry_q>>

TakeIrq(in) ==
    /\ Decoding /\ id.valid /\ ~HaltReq(in) /\ IrqReq(in)
    /\ Idles(in, Handler)
    /\ ctrl_fsm_cs' = "DECODE"
    /\ csr' = [csr EXCEPT !.mepc = id.pc, !.trap = TRUE]
    /\ UNCHANGED <<debug_mode_q, debug_req_entry_q>>

\* Instructions that flush the pipeline behind them: system instructions and CSR
\* accesses.  A CSR access at the end of a loop counts the pass; the jump to the
\* start follows in FLUSH_WB.
Flushing(in) ==
    /\ Decodes(in) /\ id.kind \in {"csr", "ecall", "mret", "dret"}
    /\ id.kind \in {"mret", "dret"} => ctrl_fsm_cs = "DECODE"
    /\ id.kind = "mret" => ~csr.ecall
    /\ Fetch(in, TRUE, FALSE, NoPc, NoPc)
    /\ CountDown(in, FALSE,
                 IF id.kind = "csr" THEN {k \in Loop : hwlp_end_eq_pc(k)} ELSE {})
    /\ ctrl_fsm_cs' = IF ~in.id_ready THEN ctrl_fsm_cs
                      ELSE IF Stepping /\ id.kind = "csr" THEN "DBG_FLUSH"
                      ELSE "FLUSH_EX"
    /\ JumpDone(in, FALSE) /\ hwlp_end_4_id_q' = FALSE
    /\ UNCHANGED <<debug_mode_q, debug_req_entry_q, csr>>

\* cv.elw: neither counts nor jumps.
EventLoad(in) ==
    /\ Decodes(in) /\ id.kind = "elw"
    /\ Fetch(in, TRUE, FALSE, NoPc, NoPc)
    /\ CountDown(in, FALSE, {})
    /\ ctrl_fsm_cs' = IF ~in.id_ready THEN ctrl_fsm_cs
                      ELSE IF Stepping THEN "DBG_FLUSH" ELSE "ELW_EXE"
    /\ JumpDone(in, FALSE) /\ hwlp_end_4_id_q' = FALSE
    /\ UNCHANGED <<debug_mode_q, debug_req_entry_q, csr>>

AfterDecode(in, next) ==
    ctrl_fsm_cs' = IF Stepping /\ in.id_ready THEN "DBG_FLUSH" ELSE next

\* A jump is made once, even if the instruction stays in ID (jump_done_q).
DecodeJump(in) ==
    LET set == IF jump_done_q THEN NoPc ELSE 0
    IN  /\ Decodes(in) /\ id.kind = "jump" /\ ctrl_fsm_cs = "DECODE"
        /\ Fetch(in, Stepping, FALSE, set, NoPc)
        /\ CountDown(in, FALSE, {})
        /\ AfterDecode(in, "DECODE")
        /\ JumpDone(in, set # NoPc) /\ hwlp_end_4_id_q' = FALSE
        /\ UNCHANGED <<debug_mode_q, debug_req_entry_q, csr>>

\* cv.count: the new value wins over a decrement (hwlp_we_i[2]).
WritesCount(in, k, n) ==
    counter' = IF in.id_ready THEN [counter EXCEPT ![k] = n] ELSE counter

Counted(in, dec) ==
    IF id.kind = "count"
    THEN \E k \in Loop, n \in Counts : id.pc + 1 = Start[k] /\ WritesCount(in, k, n)
    ELSE CountDown(in, FALSE, dec)

\* DECODE: inside a loop the controller goes on to DECODE_HWLOOP, except from the last
\* but one instruction, whose jump would come too late; at the last instruction (after
\* a return from a handler) it jumps by setting the PC.
DecodePlain(in) ==
    LET last  == {k \in Loop : hwlp_end_eq_pc(k)}
        jumps == is_hwlp_body /\ \E k \in last : counter[k] > 1
        set   == IF jumps /\ ~jump_done_q THEN hwlp_targ_addr ELSE NoPc
        stays == \E k \in Loop : hwlp_end_eq_pc_plus4(k)
    IN  /\ Decodes(in) /\ id.kind \in {"plain", "count"} /\ ctrl_fsm_cs = "DECODE"
        /\ Fetch(in, Stepping, FALSE, set, NoPc)
        /\ Counted(in, {k \in last : counter[k] = 1 \/ (set # NoPc /\ counter[k] > 1)})
        /\ AfterDecode(in, IF is_hwlp_body /\ ~stays THEN "DECODE_HWLOOP" ELSE "DECODE")
        /\ JumpDone(in, set # NoPc) /\ hwlp_end_4_id_q' = FALSE
        /\ UNCHANGED <<debug_mode_q, debug_req_entry_q, csr>>

MutJumpNotPulsed(in) ==
    LET near  == {k \in Loop : hwlp_end_eq_pc_plus4(k)}
        again == {k \in near : counter[k] > 1}
        jump  == IF again = {} \/ hwlp_end_4_id_q THEN NoPc
                 ELSE IF 0 \in again THEN Start0 ELSE Start1
    IN  /\ Decodes(in) /\ id.kind \in {"plain", "count"}
        /\ ctrl_fsm_cs = "DECODE_HWLOOP"
        /\ Fetch(in, Stepping, FALSE, NoPc, jump)
        /\ Counted(in, {k \in Loop : hwlp_end_eq_pc(k) /\ counter[k] # 0})
        /\ AfterDecode(in, IF near # {} /\ again = {} /\ ~is_hwlp_body
                           THEN "DECODE" ELSE "DECODE_HWLOOP")
        /\ JumpDone(in, FALSE) /\ hwlp_end_4_id_q' = FALSE
        /\ UNCHANGED <<debug_mode_q, debug_req_entry_q, csr>>

\* DECODE_HWLOOP: while the last but one instruction is in ID, a pulse tells prefetcher
\* and aligner to go on at the start behind the last instruction.
DecodeHwloop(in) ==
    LET near  == {k \in Loop : hwlp_end_eq_pc_plus4(k)}
        again == {k \in near : counter[k] > 1}
        jump  == IF again = {} \/ hwlp_end_4_id_q THEN NoPc
                 ELSE IF 0 \in again THEN Start0 ELSE Start1
        leaves == IF 0 \in near THEN 0 \notin again ELSE 1 \in near \ again
    IN  /\ Decodes(in) /\ id.kind \in {"plain", "count"}
        /\ ctrl_fsm_cs = "DECODE_HWLOOP"
        /\ Fetch(in, Stepping, FALSE, NoPc, jump)
        /\ Counted(in, {k \in Loop : hwlp_end_eq_pc(k) /\ counter[k] # 0})
        /\ AfterDecode(in, IF leaves /\ ~is_hwlp_body THEN "DECODE" ELSE "DECODE_HWLOOP")
        /\ JumpDone(in, FALSE) /\ hwlp_end_4_id_q' = (again # {})
        /\ UNCHANGED <<debug_mode_q, debug_req_entry_q, csr>>

-----------------------------------------------------------------------------
(* The flush, return, event-load and debug states.                         *)

\* FLUSH_EX waits for EX; an ecall saves its address there.
FlushEx(in) ==
    /\ ctrl_fsm_cs = "FLUSH_EX"
    /\ Idles(in, NoPc)
    /\ ctrl_fsm_cs' = IF in.ex_valid THEN "FLUSH_WB" ELSE "FLUSH_EX"
    /\ csr' = IF in.ex_valid /\ id.kind = "ecall" /\ ~debug_mode_q
              THEN [csr EXCEPT !.mepc = id.pc, !.trap = TRUE, !.ecall = TRUE]
              ELSE csr
    /\ UNCHANGED <<debug_mode_q, debug_req_entry_q>>

\* A CSR access at the end of a loop that is still enabled goes on at its start.
CsrTarget ==
    IF \E k \in Loop : hwlp_end_eq_pc(k) /\ counter[k] # 0 THEN hwlp_targ_addr ELSE NoPc

FlushWb(in) ==
    /\ ctrl_fsm_cs = "FLUSH_WB"
    /\ Idles(in, CASE id.kind = "ecall" -> Handler
                   [] id.kind = "csr" -> CsrTarget
                   [] OTHER -> NoPc)
    /\ ctrl_fsm_cs' = CASE id.kind \in {"mret", "dret"} -> "XRET_JUMP"
                        [] id.kind = "ecall" /\ Stepping -> "DBG_TAKEN_IF"
                        [] OTHER -> "DECODE"
    /\ csr' = IF id.kind = "mret" THEN [csr EXCEPT !.trap = FALSE] ELSE csr
    /\ UNCHANGED <<debug_mode_q, debug_req_entry_q>>

XretJump(in) ==
    /\ ctrl_fsm_cs = "XRET_JUMP"
    /\ Idles(in, IF id.kind = "mret" THEN csr.mepc ELSE csr.dpc)
    /\ ctrl_fsm_cs' = IF Stepping THEN "DBG_TAKEN_IF" ELSE "DECODE"
    /\ debug_mode_q' = (debug_mode_q /\ id.kind # "dret")
    /\ UNCHANGED <<debug_req_entry_q, csr>>

ElwExe(in) ==
    /\ ctrl_fsm_cs = "ELW_EXE"
    /\ Idles(in, NoPc)
    /\ ctrl_fsm_cs' = IF ~in.id_ready THEN "ELW_EXE"
                      ELSE IF HaltReq(in) THEN "DBG_FLUSH" ELSE "IRQ_FLUSH_ELW"
    /\ UNCHANGED <<debug_mode_q, debug_req_entry_q, csr>>

\* An interrupt during cv.elw is taken here, and the instruction replayed.
IrqFlushElw(in) ==
    /\ ctrl_fsm_cs = "IRQ_FLUSH_ELW"
    /\ LET taken == IrqReq(in) /\ ~in.debug_req
       IN  /\ Idles(in, IF taken THEN Handler ELSE NoPc)
           /\ csr' = IF taken THEN [csr EXCEPT !.mepc = id.pc, !.trap = TRUE] ELSE csr
    /\ ctrl_fsm_cs' = "DECODE"
    /\ UNCHANGED <<debug_mode_q, debug_req_entry_q>>

\* Whether the debugger is entered before or behind the instruction in ID.
EntersBefore == debug_mode_q \/ debug_req_entry_q \/ id.kind = "elw"

DbgFlush(in) ==
    /\ ctrl_fsm_cs = "DBG_FLUSH"
    /\ Idles(in, NoPc)
    /\ ctrl_fsm_cs' = IF EntersBefore THEN "DBG_TAKEN_ID" ELSE "DBG_TAKEN_IF"
    /\ UNCHANGED <<debug_mode_q, debug_req_entry_q, csr>>

DbgTaken(in) ==
    /\ ctrl_fsm_cs \in {"DBG_TAKEN_ID", "DBG_TAKEN_IF"}
    /\ Idles(in, Debugger)
    /\ ctrl_fsm_cs' = "DECODE"
    /\ csr' = [csr EXCEPT !.dpc = IF ctrl_fsm_cs = "DBG_TAKEN_ID" THEN id.pc ELSE pc_if]
    /\ debug_mode_q' = TRUE
    /\ debug_req_entry_q' = IF ctrl_fsm_cs = "DBG_TAKEN_ID" THEN FALSE
                            ELSE debug_req_entry_q

Init ==
    /\ ctrl_fsm_cs = "DECODE" /\ jump_done_q = FALSE /\ hwlp_end_4_id_q = FALSE
    /\ debug_mode_q = FALSE /\ debug_req_entry_q = FALSE
    /\ counter = [k \in Loop |-> 0]
    /\ pc_if = 0 /\ hwlp_update_pc_q = FALSE /\ hwlp_addr_q = 0
    /\ id = [valid |-> FALSE, pc |-> 0, kind |-> "plain"]
    /\ csr = [mepc |-> 0, dpc |-> 0, trap |-> FALSE, ecall |-> FALSE, step |-> FALSE]

-----------------------------------------------------------------------------
(* Software outside the program: the debugger may switch single-stepping   *)
(* on and off, and the handler of an ecall moves mepc past it in the way   *)
(* the documentation of the loops prescribes.                              *)

DebuggerCode ==
    /\ Decoding /\ id.valid /\ id.kind = "dret"
    /\ \E s \in Steps : csr' = [csr EXCEPT !.step = s]
    /\ UNCHANGED <<ctrl_fsm_cs, jump_done_q, hwlp_end_4_id_q, debug_mode_q,
                   debug_req_entry_q, counter, pc_if, hwlp_update_pc_q,
                   hwlp_addr_q, id>>

EndsBody(k) == csr.mepc + 1 = End[k] /\ counter[k] > 0

HandlerCode ==
    /\ Decoding /\ id.valid /\ id.kind = "mret" /\ csr.ecall
    /\ LET ends == {k \in Loop : EndsBody(k)}
           k == IF 0 \in ends THEN 0 ELSE 1
           next == IF ends # {} /\ counter[k] > 1 THEN Start[k] ELSE csr.mepc + 1
       IN  /\ csr' = [csr EXCEPT !.mepc = next, !.ecall = FALSE]
           /\ counter' = IF ends = {} THEN counter ELSE [counter EXCEPT ![k] = @ - 1]
    /\ UNCHANGED <<ctrl_fsm_cs, jump_done_q, hwlp_end_4_id_q, debug_mode_q,
                   debug_req_entry_q, pc_if, hwlp_update_pc_q, hwlp_addr_q, id>>

-----------------------------------------------------------------------------

Cycle(in) ==
    \/ NoInstruction(in) \/ HaltRequest(in) \/ TakeIrq(in)
    \/ Flushing(in) \/ EventLoad(in) \/ DecodeJump(in)
    \/ DecodePlain(in) \/ DecodeHwloop(in)
    \/ FlushEx(in) \/ FlushWb(in) \/ XretJump(in)
    \/ ElwExe(in) \/ IrqFlushElw(in) \/ DbgFlush(in) \/ DbgTaken(in)

Next == (\E in \in Inputs : Cycle(in)) \/ DebuggerCode \/ HandlerCode
Spec == Init /\ [][Next]_vars

\* The clock ticks, and now and then nothing stalls: fetch and decode wait for each
\* other (a fetched word stays), and EX gets ready without them.
Smooth == [fetch_valid |-> TRUE, id_ready |-> TRUE, ex_valid |-> TRUE,
           irq |-> FALSE, debug_req |-> FALSE]
FairSpec == Spec /\ WF_vars(Cycle(Smooth)) /\ WF_vars(HandlerCode)

-----------------------------------------------------------------------------
(* Properties.                                                             *)

\* The instruction to execute next, as far as the hardware has got with it ...
Upcoming ==
    CASE Decoding -> IF id.valid THEN id.pc ELSE pc_if
      [] ctrl_fsm_cs \in {"DBG_TAKEN_ID", "ELW_EXE", "IRQ_FLUSH_ELW"} -> id.pc
      [] ctrl_fsm_cs = "DBG_TAKEN_IF" -> pc_if
      [] ctrl_fsm_cs = "DBG_FLUSH" -> IF EntersBefore THEN id.pc ELSE pc_if
      [] OTHER -> CASE id.kind = "mret" -> csr.mepc
                    [] id.kind = "dret" -> csr.dpc
                    [] id.kind = "ecall" -> id.pc
                    [] id.kind = "csr" -> IF CsrTarget = NoPc THEN pc_if ELSE CsrTarget

\* ... and the instruction of the program behind handler and debugger.
Resumed(a) == IF a = Handler THEN csr.mepc ELSE a
ProgramPc  == Resumed(IF Upcoming = Debugger THEN csr.dpc ELSE Upcoming)

Order == INSTANCE HwLoopSpec WITH pc <- ProgramPc, count <- counter

\* The program is executed in program order and each pass through a loop is counted
\* once, whatever stalls, interrupts, exceptions and debug entries fall into the two
\* last instructions of a body, where the jump is prepared and the counter changed.
RunsInOrder == Order!Spec

LoopJumps ==
    {k \in Loop : /\ ctrl_fsm_cs = "DECODE_HWLOOP" /\ id.valid
                  /\ id.kind \in {"plain", "count"} /\ ~hwlp_end_4_id_q
                  /\ hwlp_end_eq_pc_plus4(k) /\ counter[k] > 1}

\* A loop jump is raised when IF holds the last instruction of the body and no other
\* jump waits there (a_hwlp_update_pc): prefetcher and aligner go on at the start
\* right behind that instruction and agree on it.
JumpsBehindLast ==
    \A k \in LoopJumps : pc_if + 1 = End[k] /\ ~hwlp_update_pc_q

\* DECODE_HWLOOP, which knows neither jumps nor returns nor fences, is only in use for
\* instructions of a loop body: it is left in time after the last pass, and on the way
\* to a handler or the debugger.
LoopStateInBody ==
    ctrl_fsm_cs = "DECODE_HWLOOP" /\ id.valid => \E k \in Loop : InRange(k)

\* Loops end: without interrupts and debug entries the program comes to its end again
\* and again.
LoopsEnd ==
    <>[](~csr.trap /\ ~debug_mode_q) => []<>(id.valid /\ id.pc = Exit)
=============================================================================
