--------------------------- MODULE ApuDispatcher ----------------------------
(***************************************************************************)
(* The FPU as EX sees it: the dispatcher (cv32e40p_apu_disp.sv), which     *)
(* remembers where the results in flight belong, and the memorization of a *)
(* result whose write port is needed by something else                     *)
(* (cv32e40p_ex_stage.sv).  An operation in EX has ex.apu = apu_lat: 1 for *)
(* a result in the same cycle, 2 in the next one, 3 later (0: none).       *)
(***************************************************************************)
EXTENDS LoadStoreUnit

CONSTANT Lats            \* latencies of the FPU's operations, {} without FPU

ASSUME ApuAssumption == Lats \subseteq 1..3

VARIABLES
    apu,       \* registers of the dispatcher, apu_rvalid_q and apu_result_q
    fpu        \* FPU: operations accepted and not yet answered, oldest first

apuVars == <<apu, fpu>>

valid_inflight == apu.inflight # NoReg
valid_waiting  == apu.waiting # NoReg
active == valid_inflight \/ valid_waiting

multicycle  == apu.lat = 3
singlecycle == ~active

-----------------------------------------------------------------------------
(* Requests.                                                               *)

\* With operations in flight, only one of the same latency 2 may follow: no result
\* overtakes another one.
stall_type ==
    /\ ex.apu # 0 /\ active
    /\ ex.apu = 2 => apu.lat = 3

apu_stall == (valid_inflight /\ valid_waiting) \/ stall_type

valid_req == ex.apu # 0 /\ ~apu_stall

-----------------------------------------------------------------------------
(* The unit answers operations of latency 2 after one cycle and the others *)
(* when it chooses to.                                                     *)

answers(in) ==
    IF fpu = <<>> THEN valid_req /\ ex.apu = 1
    ELSE Head(fpu).lat = 2 \/ (in.fpu /\ Head(fpu).old)

apu_result_i == IF fpu = <<>> THEN ex.result ELSE Head(fpu).result

FpuStep(in) ==
    LET aged == [k \in DOMAIN fpu |-> [fpu[k] EXCEPT !.old = TRUE]]
        rest == IF answers(in) /\ fpu # <<>> THEN Tail(aged) ELSE aged
    IN  fpu' = IF valid_req /\ ~(answers(in) /\ fpu = <<>>)
               THEN Append(rest, [lat |-> ex.apu, result |-> ex.result, old |-> FALSE])
               ELSE rest

-----------------------------------------------------------------------------
(* Memorization.                                                           *)

read_dep_for_jalr(r) ==
    \/ ex.apu # 0 /\ ex.apu_rd = r
    \/ r \in {apu.inflight, apu.waiting} \ {NoReg}

mulh_active == ex.slow \in {"mulh", "mulh_finish"}

MutForgetsJalr(in) ==
    \/ data_misaligned \/ ex.misaligned
    \/ (trans_valid(in) \/ in.rvalid) /\ ex.alu_rd # NoReg
    \/ mulh_active

\* What keeps the result of a multi-cycle operation off the ALU write port: an
\* access that is misaligned or updates its base, a MULH, and the ALU operation in
\* front of a jump through another register than the one in flight.
port_needed(in) ==
    \/ data_misaligned \/ ex.misaligned
    \/ (trans_valid(in) \/ in.rvalid) /\ ex.alu_rd # NoReg
    \/ mulh_active
    \/ /\ in.jalr # NoJump /\ ex.alu_rd # NoReg
       /\ ~read_dep_for_jalr(in.jalr)

apu_valid(in) ==
    IF multicycle /\ port_needed(in) THEN FALSE ELSE answers(in) \/ apu.rvalid_q

apu_result == IF apu.rvalid_q THEN apu.result_q ELSE apu_result_i

-----------------------------------------------------------------------------
(* Results and dependences.                                                *)

returned_req(in) == valid_req /\ apu_valid(in) /\ ~active
returned_inflight(in) == valid_inflight /\ apu_valid(in) /\ ~valid_waiting
returned_waiting(in) == valid_waiting /\ apu_valid(in)

apu_waddr(in) ==
    CASE returned_waiting(in)  -> apu.waiting
      [] returned_inflight(in) -> apu.inflight
      [] returned_req(in)      -> ex.apu_rd
      [] OTHER                 -> NoReg

MutDepOnRequest(in, regs) == valid_req /\ ~returned_req(in) /\ ex.apu_rd \in regs

\* read_dep_o and write_dep_o for the registers of the instruction in ID.
apu_dep(in, regs) ==
    \/ valid_req /\ ~returned_req(in) /\ ex.apu_rd \in regs
    \/ valid_inflight /\ ~returned_inflight(in) /\ apu.inflight \in regs
    \/ valid_waiting /\ ~returned_waiting(in) /\ apu.waiting \in regs

-----------------------------------------------------------------------------
(* Registers.                                                              *)

MutClearsOnly(in) ==
    LET accepted == valid_req /\ ~returned_req(in)
    IN  [inflight |-> CASE returned_inflight(in) -> NoReg
                        [] accepted -> ex.apu_rd
                        [] OTHER -> apu.inflight,
         waiting  |-> apu.waiting]

Slots(in) ==
    LET accepted == valid_req /\ ~returned_req(in)
    IN  [inflight |-> CASE accepted -> ex.apu_rd
                        [] ~accepted /\ returned_inflight(in) -> NoReg
                        [] OTHER -> apu.inflight,
         waiting  |-> CASE accepted /\ \/ valid_inflight /\ ~returned_inflight(in)
                                       \/ returned_waiting(in) -> apu.inflight
                        [] ~accepted /\ \/ returned_inflight(in)
                                        \/ returned_waiting(in) -> NoReg
                        [] OTHER -> apu.waiting]

NextApu(in) ==
    LET memorize == answers(in) /\ multicycle /\ port_needed(in)
    IN  apu' = [inflight |-> Slots(in).inflight,
                waiting  |-> Slots(in).waiting,
                lat      |-> IF valid_req THEN ex.apu ELSE apu.lat,
                rvalid_q |-> memorize \/ (apu.rvalid_q /\ port_needed(in)),
                result_q |-> IF memorize THEN apu_result_i ELSE apu.result_q]

ApuStep(in) == FpuStep(in) /\ NextApu(in)

ApuInit ==
    /\ apu = [inflight |-> NoReg, waiting |-> NoReg, lat |-> 0,
              rvalid_q |-> FALSE, result_q |-> 0]
    /\ fpu = <<>>
=============================================================================
