------------------------------ MODULE Pipeline ------------------------------
(***************************************************************************)
(* The flow of instructions from ID through EX to WB: the ID/EX register   *)
(* (cv32e40p_id_stage.sv), the EX/WB register and write ports              *)
(* (cv32e40p_ex_stage.sv), load-use stalls and forwarding                  *)
(* (cv32e40p_controller.sv) and the register file, around the load-store   *)
(* unit.  The ID stage may bring any load, store, ALU operation, branch or *)
(* bubble; ALU operations may take several cycles (divider, MULH).         *)
(***************************************************************************)
EXTENDS ApuDispatcher, TLC

CONSTANTS CorevPulp,     \* parameter COREV_PULP (gates the register write enables)
          Results        \* results of ALU operations

ASSUME PipelineAssumption ==
    /\ CorevPulp \in BOOLEAN
    /\ Results \subseteq Nat
    /\ {NoReg, NoJump} \cap Regs = {}

VARIABLES
    wb,        \* regfile_we_lsu and regfile_waddr_lsu
    rf,        \* register file
    arch       \* history: the registers as program order demands, up to EX

vars == <<ex, lsuVars, apuVars, wb, rf, arch>>

Dest == Regs \cup {NoReg}
Num(n) == [num |-> n]

\* What the bus, the multi-cycle units and the FPU may do in a cycle, and the register
\* a JALR in ID jumps through.
Inputs ==
    {in \in [gnt : BOOLEAN, rvalid : BOOLEAN, unit_ready : BOOLEAN, fpu : BOOLEAN,
             jalr : Dest \cup {NoJump}] :
        /\ in.rvalid => pend # <<>>
        /\ in.gnt => trans_valid(in)
        /\ in.unit_ready => ex.slow \in {"div", "mulh"}
        /\ in.fpu => fpu # <<>>}

\* Instructions.  `rd' (regfile_waddr) and `we_rd' are the destination of a load,
\* `alu_rd' is what the ALU port writes: the result of an ALU operation, a link or a
\* post-incremented base.  What EX does not read is left at Idle's value;
\* the result of an FPU operation tells its latency.
Idle == [req |-> FALSE, we |-> FALSE, type |-> "word", sign |-> "zero",
         op_a |-> 0, op_b |-> 0, useincr |-> FALSE, misaligned |-> FALSE,
         rd |-> NoReg, we_rd |-> FALSE, alu_rd |-> NoReg, result |-> 0,
         slow |-> "no", branch |-> FALSE, apu |-> 0, apu_rd |-> NoReg]

Access(t, a, b, post) ==
    [Idle EXCEPT !.req = TRUE, !.type = t, !.op_a = a, !.op_b = b,
                 !.useincr = (post = NoReg), !.alu_rd = post]
Load(acc, r, s) == [acc EXCEPT !.we_rd = TRUE, !.rd = r, !.sign = s]
AluOp(r, n, s) == [Idle EXCEPT !.alu_rd = r, !.result = n, !.slow = s]
FpuOp(l, r) == [Idle EXCEPT !.apu = l, !.apu_rd = r, !.result = l]

\* Only the PULP instruction set has accesses that update their base.
Accesses == {Access(t, a, b, post) :
                t \in Types, a \in Bases, b \in Incs,
                post \in IF CorevPulp THEN Dest ELSE {NoReg}}
Loads == {Load(acc, r, s) : acc \in Accesses, r \in Dest, s \in Signs}
Stores == {[acc EXCEPT !.we = TRUE] : acc \in Accesses}
AluOps == {AluOp(r, n, s) :
             r \in Regs, n \in Results, s \in {"no", "div", "mulh_idle"}}
FpuOps == {FpuOp(l, r) : l \in Lats, r \in Regs}
Links == {[Idle EXCEPT !.alu_rd = r] : r \in Regs}
Branches == {[Idle EXCEPT !.branch = TRUE]}

\* Operand A of a post-incrementing access is the register that it updates.
Reads(i) == IF i.req THEN {i.alu_rd} \ {NoReg} ELSE {}
Writes(i) == ({i.alu_rd} \cup IF i.we_rd THEN {i.rd} ELSE {}) \ {NoReg}

-----------------------------------------------------------------------------
(* Readiness of EX, the ALU port and the LSU port.                         *)

\* A MULH leaves its idle state first and waits in its last one until EX is ready.
unit_ready(in) ==
    CASE ex.slow \in {"no", "mulh_finish"} -> TRUE
      [] ex.slow = "mulh_idle" -> FALSE
      [] OTHER -> in.unit_ready

\* The FPU takes the ALU port for its results, unless they come after two cycles.
apu_writes_alu(in) == apu_valid(in) /\ (singlecycle \/ multicycle)
wb_contention(in) == apu_writes_alu(in) /\ ex.alu_rd # NoReg

ex_ready(in) ==
    \/ /\ ~apu_stall /\ unit_ready(in) /\ lsu_ready_ex(in) /\ lsu_ready_wb(in)
       /\ ~wb_contention(in)
    \/ ex.branch

ex_valid(in) == unit_ready(in) /\ lsu_ready_ex(in) /\ lsu_ready_wb(in)

\* While a multi-cycle operation runs, the ALU port carries no meaningful value.
alu_result(in) ==
    IF ~unit_ready(in) THEN Garbage
    ELSE IF ex.req THEN Num(ex.op_a + ex.op_b) ELSE Num(ex.result)

\* A port names the register that is forwarded; `power' is its write enable.
alu_port(in) ==
    IF apu_writes_alu(in)
    THEN [rd |-> apu_waddr(in), data |-> Num(apu_result), power |-> TRUE]
    ELSE [rd |-> ex.alu_rd, data |-> alu_result(in),
          power |-> CorevPulp => unit_ready(in) /\ lsu_ready_ex(in)]

lsu_port(in) ==
    CASE wb.we ->
           [rd |-> wb.rd, data |-> data_rdata_ex(in),
            power |-> CorevPulp => ~ex.misaligned /\ lsu_ready_wb(in)]
      [] ~wb.we /\ apu_valid(in) /\ ~apu_writes_alu(in) ->
           [rd |-> apu_waddr(in), data |-> Num(apu_result), power |-> TRUE]
      [] OTHER -> [rd |-> NoReg, data |-> Garbage, power |-> FALSE]

MutPortAWins(in) ==
    LET b == alu_port(in)
        a == lsu_port(in)
    IN  rf' = [r \in Regs |-> IF a.power /\ a.rd = r THEN a.data
                             ELSE IF b.power /\ b.rd = r THEN b.data ELSE rf[r]]

\* Register file: port b (ALU) has priority over port a (LSU).
WriteRegisters(in) ==
    LET b == alu_port(in)
        a == lsu_port(in)
    IN  rf' = [r \in Regs |-> IF b.power /\ b.rd = r THEN b.data
                             ELSE IF a.power /\ a.rd = r THEN a.data ELSE rf[r]]

NextWb(in) ==
    wb' = IF ex_valid(in) THEN [we |-> ex.we_rd, rd |-> IF ex.we_rd THEN ex.rd ELSE wb.rd]
          ELSE IF lsu_ready_wb(in) THEN [wb EXCEPT !.we = FALSE]
          ELSE wb

-----------------------------------------------------------------------------
(* Operands of the instruction in ID.                                      *)

MutStallsOnExOnly(in, reads) == ex.req /\ ex.we_rd /\ ex.rd \in reads

\* The stall for loads in WB looks at regfile_waddr_ex as well: it still names the
\* destination of the last load, as only loads change it.
load_stall(in, reads) ==
    /\ \/ ex.req /\ ex.we_rd
       \/ ~lsu_ready_wb(in) /\ wb.we
    /\ ex.rd \in reads

\* A JALR takes its target from the register file, before it leaves ID.
jr_stall(in) ==
    /\ in.jalr \in Regs
    /\ \/ lsu_port(in).rd = in.jalr
       \/ ex.we_rd /\ ex.rd = in.jalr
       \/ alu_port(in).rd = in.jalr
       \/ read_dep_for_jalr(in.jalr)

id_ready(in, reads) ==
    /\ ~data_misaligned /\ ~jr_stall(in) /\ ~load_stall(in, reads)
    /\ ~apu_dep(in, reads) /\ ex_ready(in)

operand_fw(in, r) ==
    IF alu_port(in).rd = r THEN alu_port(in).data
    ELSE IF lsu_port(in).rd = r THEN lsu_port(in).data ELSE rf[r]

\* Program order: an instruction leaving ID updates its base, then its destination.
Loaded(i) ==
    LET addr == IF i.useincr THEN i.op_a + i.op_b ELSE i.op_a
    IN  [lanes |-> [k \in 1..Size(i.type) |-> addr + k - 1], fill |-> Fill(i.type, i.sign)]

InOrder(i) ==
    [r \in Regs |->
        IF i.we_rd /\ i.rd = r THEN Loaded(i)
        ELSE IF r \in {i.alu_rd, i.apu_rd}
             THEN Num(IF i.req THEN i.op_a + i.op_b ELSE i.result)
        ELSE arch[r]]

-----------------------------------------------------------------------------
(* One clock edge: everything but ID/EX, and the four ways ID/EX moves.    *)

Edge(in) ==
    LsuStep(in, ex_ready(in)) /\ ApuStep(in) /\ NextWb(in) /\ WriteRegisters(in)

\* regfile_waddr_ex only changes with a load.
Enters(i) == [i EXCEPT !.rd = IF i.we_rd THEN i.rd ELSE ex.rd]

\* A jump writes its link; an FPU operation waits for no other one to be written.
Issue(in) ==
    /\ id_ready(in, {})
    /\ Edge(in)
    /\ \E i \in IF in.jalr = NoJump
               THEN Loads \cup Stores \cup AluOps \cup FpuOps \cup Branches
               ELSE Links :
        /\ id_ready(in, Reads(i))
        /\ i.apu = 0 => ~apu_dep(in, Writes(i))
        \* ALU port of a load in ID, against the load in EX or WB
        /\ ~(i.we_rd /\ i.alu_rd # NoReg /\ load_stall(in, {i.alu_rd}))
        /\ ex' = Enters(i)
        /\ arch' = InOrder(i)

\* First part of a misaligned access done: the second one is at the address behind
\* it, and does not update the base again.
SecondPart(in) ==
    /\ data_misaligned /\ ex_ready(in)
    /\ ex' = [ex EXCEPT !.op_a = IF ex.useincr THEN ex.op_a + ex.op_b ELSE ex.op_a,
                        !.op_b = 4, !.alu_rd = NoReg, !.useincr = TRUE,
                        !.misaligned = TRUE]
    /\ UNCHANGED arch
    /\ Edge(in)

Bubble(in) ==
    /\ ~data_misaligned /\ ex_ready(in)
    /\ ex' = [Idle EXCEPT !.rd = ex.rd]
    /\ UNCHANGED arch
    /\ Edge(in)

\* EX waits; the result of a multi-cycle operation is held once it is ready.
Hold(in) ==
    /\ ~ex_ready(in)
    /\ ex' = [ex EXCEPT !.slow = CASE ex.slow = "mulh_idle" -> "mulh"
                                   [] ex.slow = "mulh" /\ in.unit_ready -> "mulh_finish"
                                   [] ex.slow = "div" /\ in.unit_ready -> "no"
                                   [] OTHER -> ex.slow]
    /\ UNCHANGED arch
    /\ Edge(in)

Init ==
    /\ LsuInit /\ ApuInit
    /\ ex = Idle
    /\ wb = [we |-> FALSE, rd |-> NoReg]
    /\ rf = [r \in Regs |-> Num(0)] /\ arch = rf

Drain(in) == SecondPart(in) \/ Bubble(in) \/ Hold(in)
Next == \E in \in Inputs : Issue(in) \/ Drain(in)
Spec == Init /\ [][Next]_vars

\* The clock ticks also when ID brings nothing, the memory grants what is requested
\* and answers what it granted, and multi-cycle operations and the FPU come to an end.
Quiet == {in \in Inputs : in.jalr = NoJump}
FairSpec ==
    /\ Spec
    /\ WF_vars(\E in \in Quiet : Drain(in))
    /\ WF_vars(\E in \in Quiet : in.gnt /\ Drain(in))
    /\ WF_vars(\E in \in Quiet : in.rvalid /\ Drain(in))
    /\ WF_vars(\E in \in Quiet : in.unit_ready /\ Drain(in))
    /\ WF_vars(\E in \in Quiet : in.fpu /\ Drain(in))

-----------------------------------------------------------------------------
(* Properties.                                                             *)

\* Every variable has the type of its registers.
TypeOK ==
    /\ cnt_q \in 0..DEPTH
    /\ ctrl_q \in [type : {"word", "half", "byte"}, offset : 0..3,
                   sign : {"zero", "sign", "ones"}, we : BOOLEAN]
    /\ pend \in Seq([word : Nat, we : BOOLEAN])
    /\ issued \in 0..1
    /\ wb \in [we : BOOLEAN, rd : Dest]
    /\ ex.rd \in Dest /\ ex.alu_rd \in Dest
    /\ apu.inflight \in Dest /\ apu.waiting \in Dest /\ apu.lat \in 0..3

\* The counter follows the bus: a transaction is never forgotten or counted twice, so
\* that lsu_ready_wb and busy_o can be trusted, and a third one is never requested.
CountsOutstanding == cnt_q = Len(pend) /\ cnt_q =< DEPTH

\* An access that waits in EX for an older response has been requested exactly once
\* when it leaves: never twice (a device register would be read or written twice)
\* and never zero times.
IssuedOnce ==
    ex.req =>
        \A in \in Inputs :
            /\ IssuedNow(in) =< 1
            /\ lsu_ready_ex(in) => IssuedNow(in) = 1

\* When a store leaves EX, its one or two transactions have together written each of
\* its bytes to its address, from the right byte of the register, and no other byte.
StoresItsBytes ==
    \A in \in Inputs :
        ex.req /\ ex.we /\ lsu_ready_ex(in) /\ ~data_misaligned =>
            LET first == IF ex.misaligned THEN data_addr_int - 4 ELSE data_addr_int
            IN  SentNow(in) = {<<first + k, k>> : k \in 0..Size(ex.type) - 1}

\* An instruction never leaves ID with an operand other than the one program order
\* gives it: not with a half-assembled or older value while a load is in EX or WB,
\* behind a branch that passes a waiting load, or next to a write of both ports.
OperandsInOrder ==
    \A in \in Inputs, r \in Regs :
        id_ready(in, {r}) => operand_fw(in, r) = arch[r]

\* A JALR never jumps through a value other than the one program order gives it,
\* although it reads the register file without forwarding: every result on its way
\* holds it, also when the FPU hides an older ALU result from the write port.
JumpsInOrder ==
    \A in \in Inputs :
        in.jalr \in Regs /\ ~jr_stall(in) => rf[in.jalr] = arch[in.jalr]

\* The dispatcher knows of every operation that the FPU works on and of no other: a
\* result never returns without an owner, and the slots never overflow.
SlotsMatchUnit ==
    /\ ~valid_waiting
    /\ valid_inflight = (fpu # <<>> \/ apu.rvalid_q)
    /\ Len(fpu) =< 1 /\ ~(apu.rvalid_q /\ fpu # <<>>)

\* When nothing is in flight, the register file holds what program order demands: no
\* load was dropped, overwritten by an older one or left with its first half.
RegistersSettle ==
    ~ex.req /\ ex.alu_rd = NoReg /\ ex.apu = 0 /\ ~wb.we /\ ~active => rf = arch

\* If the ID stage brings nothing new, the accesses and operations in flight end and
\* their results reach the registers: EX and WB never wait for each other.
NothingNew == [][\E in \in Inputs : Drain(in)]_vars
InFlightEnds ==
    <>NothingNew => <>[](pend = <<>> /\ ~ex.req /\ ~active /\ rf = arch)
=============================================================================
